---- MODULE Spec2Model ----
(***************************************************************************)
(* goqueue: an in-process job queue.  The repository holds three           *)
(* iterations of the engine, modelled side by side:                        *)
(*                                                                         *)
(*   A  entity.Job (checked transitions), storage.MemoryStorage,           *)
(*      usecase.JobProcessor.ProcessJob, worker.WorkerPool of              *)
(*      internal/worker/pool.go, goqueue.Queue of goqueue.go               *)
(*   B  job.Job (checked transitions), worker.WorkerPool with              *)
(*      processJob and time.AfterFunc retry (unnamed/part_011)             *)
(*   C  job.Job without transition checks (unnamed/part_013),              *)
(*      storage.Memory, worker.Pool (unnamed/part_010), queue.Queue        *)
(*      of internal/queue/queue.go                                         *)
(***************************************************************************)
EXTENDS Integers, Sequences, FiniteSets, TLC

(* ------------------------------ bounds --------------------------------- *)
MaxJobs == 2
MaxWorkers == 2
MaxRetryBound == 2
MaxFailK == 1
\* the bufferSize handed to NewPool
BufferSize == 1

\* a burst of jobs is one job more than the general runs submit
BurstJobs == MaxJobs + 1
JobIds == 1..BurstJobs
Workers == 1..MaxWorkers
\* "ghost" is the type nobody registers a handler for
Types == {"echo", "ghost"}
RegisteredTypes == {"echo"}

(* ------------------------------ statuses ------------------------------- *)
StatusPending == "pending"
StatusProcessing == "processing"
StatusCompleted == "completed"
StatusFailed == "failed"
\* the job of unnamed/part_013 calls its in-progress status "running"
StatusRunning == "running"
StatusCanceled == "canceled"

Statuses == {StatusPending, StatusProcessing, StatusCompleted, StatusFailed}

\* error messages, by kind
NoError == ""
ErrHandler == "handler error"
ErrHandlerNotFound == "handler not found"
ErrInvalidStatusTransition == "invalid status transition"

(* ------------------------------ handlers ------------------------------- *)
\* A registry entry.  A handler is described by what it returns: always an
\* error, or an error on the first k invocations for a job and nil afterwards
\* (k = 0: always nil).
NoHandler == [reg |-> FALSE, always |-> FALSE, k |-> 0]
FailHandler == [reg |-> TRUE, always |-> TRUE, k |-> 0]
FailFirst(k) == [reg |-> TRUE, always |-> FALSE, k |-> k]
OkHandler == FailFirst(0)
HandlerFuncs == {FailHandler} \cup {FailFirst(k) : k \in 0..MaxFailK}

\* the handler's result on its (n+1)-th invocation for a job: TRUE = error
HandlerFails(h, n) == h.always \/ n < h.k

(* ------------------------------ the job -------------------------------- *)
\* a slot of the model that holds no job yet
\* payloads: nil (the Payload of a job nobody gave one) and two maps
NoPayload == "nil"
Payloads == {"{}", "{x:1}"}
\* the payload of the jobs submitted to the pools, which never look at it
SomePayload == "{x:1}"

\* the instant of a job's creation, which gives it CreatedAt and its ID
AtCreation == "now"
NewID == "job_now"

NoJob == [status |-> "none", attempts |-> 0, maxRetry |-> 0,
          error |-> NoError, type |-> "", payload |-> NoPayload,
          id |-> "", createdAt |-> ""]

\* a constructor that counts the creation as the first attempt
NewJobCountsAttempt(maxRetry) ==
    [status |-> StatusPending, attempts |-> 1, maxRetry |-> maxRetry,
     error |-> NoError, type |-> "", payload |-> NoPayload,
     id |-> NewID, createdAt |-> AtCreation]

NewJob(maxRetry) == [status |-> StatusPending, attempts |-> 0,
                     maxRetry |-> maxRetry, error |-> NoError, type |-> "",
                     payload |-> NoPayload,
                     id |-> NewID, createdAt |-> AtCreation]

New(jobType, payload, maxRetry) ==
    [NewJob(maxRetry) EXCEPT !.type = jobType, !.payload = payload]

validTransitions(from) ==
    CASE from = StatusPending -> {StatusProcessing}
      [] from = StatusProcessing -> {StatusCompleted, StatusFailed, StatusPending}
      [] from = StatusFailed -> {}
      [] from = StatusCompleted -> {}
      [] OTHER -> {}

\* a transition check without the retry edge Processing -> Pending
canTransitionNoRetry(from, to) ==
    to \in (validTransitions(from) \ {StatusPending})

canTransition(from, to) == to \in validTransitions(from)

\* Every operation returns the job after the call and whether it returned an
\* error.
ChangeStatus(job, status) ==
    IF ~canTransition(job.status, status)
    THEN [job |-> job, err |-> TRUE]
    ELSE [job |-> [job EXCEPT !.status = status], err |-> FALSE]

\* a retry test that gives up one attempt early
CanRetryOffByOne(job) == job.attempts + 1 < job.maxRetry

\* a retry test that allows one attempt more
CanRetryInclusive(job) == job.attempts <= job.maxRetry

CanRetry(job) == job.attempts < job.maxRetry

\* a backoff that grows linearly
BackoffDurationLinear(job) == job.attempts * 2

\* time.Duration(backoff) * time.Second, counted in seconds
BackoffDuration(job) == job.attempts * job.attempts

MarkRunning(job) ==
    LET r == ChangeStatus(job, StatusProcessing) IN
    IF r.err THEN r
    ELSE [job |-> [r.job EXCEPT !.attempts = @ + 1], err |-> FALSE]

\* a completion that records the job as Failed
MarkCompletedWrongStatus(job) ==
    LET r == ChangeStatus(job, StatusFailed) IN
    IF r.err THEN r
    ELSE [job |-> [r.job EXCEPT !.error = NoError], err |-> FALSE]

\* a completion that leaves the Error of the last failure in place
MarkCompletedKeepsError(job) == ChangeStatus(job, StatusCompleted)

MarkCompleted(job) ==
    LET r == ChangeStatus(job, StatusCompleted) IN
    IF r.err THEN r
    ELSE [job |-> [r.job EXCEPT !.error = NoError], err |-> FALSE]

\* a MarkFailed that also counts the failure as an attempt
MarkFailedCountsAttempt(job, msg) ==
    LET j1 == [job EXCEPT !.error = msg, !.attempts = @ + 1]
        targetStatus == IF CanRetry(j1) THEN StatusPending ELSE StatusFailed
    IN ChangeStatus(j1, targetStatus)

\* a MarkFailed that takes each retry out of the job's retry budget
MarkFailedSpendsRetry(job, msg) ==
    LET j1 == [job EXCEPT !.error = msg]
        targetStatus == IF CanRetry(j1) THEN StatusPending ELSE StatusFailed
        j2 == IF CanRetry(j1) THEN [j1 EXCEPT !.maxRetry = @ - 1] ELSE j1
    IN ChangeStatus(j2, targetStatus)

MarkFailed(job, msg) ==
    LET j1 == [job EXCEPT !.error = msg]
        targetStatus == IF CanRetry(j1) THEN StatusPending ELSE StatusFailed
    IN ChangeStatus(j1, targetStatus)

\* The job of unnamed/part_013: the same fields, no transition check, and the
\* operations return nothing.
IsTerminal(s) == s \in {StatusCompleted, StatusFailed, StatusCanceled}

MarkRunningNoCheck(job) ==
    [job EXCEPT !.status = StatusRunning, !.attempts = @ + 1]

MarkCompletedNoCheck(job) ==
    [job EXCEPT !.status = StatusCompleted, !.error = NoError]

MarkFailedNoCheck(job, msg) ==
    LET j1 == [job EXCEPT !.error = msg] IN
    [j1 EXCEPT !.status = IF CanRetry(j1) THEN StatusPending ELSE StatusFailed]

MarkCanceledNoCheck(job) == [job EXCEPT !.status = StatusCanceled]

(* ------------------------------ state ---------------------------------- *)
VARIABLES
    impl,        \* which iteration of the engine runs: "A", "B", "C" ("job": none)
    quota,       \* how many jobs the callers of this run submit at most
    jobs,        \* the Job objects, by id; NoJob where none was created
    stored,      \* ids in the store's map (the map holds pointers to jobs)
    handlers,    \* the registry: job type -> entry
    workerCount, \* the pool's worker count, fixed at construction
    capacity,    \* the buffer size of jobChan, fixed at construction
    jobChan,     \* the intake channel's buffer, a sequence of job ids
    closed,      \* the intake channel was closed
    cancelled,   \* the pool's context was cancelled
    started,     \* Start was called
    stopped,     \* Stop returned
    wstate,      \* worker -> "new" | "idle" | "busy" | "saving" | "exited"
    hand,        \* worker -> the job id it holds, 0 for none
    fn,          \* worker -> the handler it looked up for the job in hand
    timers,      \* job id -> pending delayed-retry tasks still sleeping
    senders,     \* job id -> sends of the job blocked on / about to enter jobChan
    calls,       \* job id -> handler invocations so far
    ret,         \* what the last call of the caller-facing API returned
    panicked,    \* a goroutine panicked (send on closed channel, nil job)
    callers,     \* goroutine -> its call on the registry that is under way
    mem          \* the store used on its own: the IDs of the objects, the maps

vars == <<impl, quota, jobs, stored, handlers, workerCount, capacity, jobChan, closed, cancelled,
          started, stopped, wstate, hand, fn, timers, senders, calls, ret,
          panicked, callers, mem>>

poolVars == <<impl, quota, workerCount, capacity, jobChan, closed, cancelled, started, stopped,
              wstate, hand, fn, timers, senders, calls, panicked, callers, mem>>

NoRet == [op |-> "", job |-> 0, arg |-> "", before |-> "", err |-> FALSE]

\* the goroutines that call the registry at the same time
Callers == {"g1", "g2"}
NoCall == [pc |-> "idle", type |-> "", fn |-> NoHandler, raced |-> FALSE]
NoCallers == [c \in Callers |-> NoCall]

\* the job IDs a caller of the store writes into its Job objects, the stores
Keys == {"id1", "id2"}
Stores == {"s1", "s2"}
NoMem == [idOf |-> [o \in JobIds |-> ""], map |-> [s \in Stores |-> [k \in Keys |-> 0]]]

Created(j) == jobs[j].status # "none"
\* ids are handed out in order; n is how many jobs the run may create
FreshIds(n) == {j \in 1..n : ~Created(j) /\ \A i \in 1..(j - 1) : Created(i)}

\* attempts is an unbounded int in the code; the model stops counting here
MaxAttempts == MaxRetryBound + 2

(* ------------------- the job alone, any call sequence ------------------ *)
InitIdle(i, n, cap) ==
    /\ impl = i
    /\ quota = MaxJobs
    /\ capacity = cap
    /\ jobs = [j \in JobIds |-> NoJob]
    /\ stored = {}
    /\ handlers = [t \in Types |-> NoHandler]
    /\ workerCount = n
    /\ jobChan = <<>>
    /\ closed = FALSE
    /\ cancelled = FALSE
    /\ started = FALSE
    /\ stopped = FALSE
    /\ wstate = [w \in Workers |-> "new"]
    /\ hand = [w \in Workers |-> 0]
    /\ fn = [w \in Workers |-> NoHandler]
    /\ timers = [j \in JobIds |-> 0]
    /\ senders = [j \in JobIds |-> 0]
    /\ calls = [j \in JobIds |-> 0]
    /\ ret = NoRet
    /\ panicked = FALSE
    /\ callers = NoCallers
    /\ mem = NoMem

InitJob == InitIdle("job", 1, 1)

Called(op, j, arg, r) ==
    /\ jobs' = [jobs EXCEPT ![j] = r.job]
    /\ ret' = [op |-> op, job |-> j, arg |-> arg,
               before |-> jobs[j].status, err |-> r.err]
    /\ UNCHANGED <<stored, handlers, poolVars>>

JobNew(maxRetry) ==
    /\ ~Created(1)
    /\ jobs' = [jobs EXCEPT ![1] = NewJob(maxRetry)]
    /\ ret' = [op |-> "NewJob", job |-> 1, arg |-> "", before |-> "none",
               err |-> FALSE]
    /\ UNCHANGED <<stored, handlers, poolVars>>

JobChangeStatus(j, status) ==
    /\ Created(j)
    /\ Called("ChangeStatus", j, status, ChangeStatus(jobs[j], status))

JobMarkRunning(j) ==
    /\ Created(j)
    /\ jobs[j].attempts < MaxAttempts
    /\ Called("MarkRunning", j, "", MarkRunning(jobs[j]))

JobMarkCompleted(j) ==
    /\ Created(j)
    /\ Called("MarkCompleted", j, "", MarkCompleted(jobs[j]))

JobMarkFailed(j, msg) ==
    /\ Created(j)
    /\ Called("MarkFailed", j, msg, MarkFailed(jobs[j], msg))

NextJob ==
    \/ \E n \in 0..MaxRetryBound : JobNew(n)
    \/ \E s \in Statuses : JobChangeStatus(1, s)
    \/ JobMarkRunning(1)
    \/ JobMarkCompleted(1)
    \/ \E m \in {ErrHandler, ErrHandlerNotFound} : JobMarkFailed(1, m)

SpecJob == InitJob /\ [][NextJob]_vars

\* the job of unnamed/part_013 under any call sequence
NoCheckCalled(op, j, arg, job) == Called(op, j, arg, [job |-> job, err |-> FALSE])

JobMarkRunningNoCheck(j) ==
    /\ Created(j)
    /\ jobs[j].attempts < MaxAttempts
    /\ NoCheckCalled("MarkRunning", j, "", MarkRunningNoCheck(jobs[j]))

JobMarkCompletedNoCheck(j) ==
    /\ Created(j)
    /\ NoCheckCalled("MarkCompleted", j, "", MarkCompletedNoCheck(jobs[j]))

JobMarkFailedNoCheck(j, msg) ==
    /\ Created(j)
    /\ NoCheckCalled("MarkFailed", j, msg, MarkFailedNoCheck(jobs[j], msg))

JobMarkCanceledNoCheck(j) ==
    /\ Created(j)
    /\ NoCheckCalled("MarkCanceled", j, "", MarkCanceledNoCheck(jobs[j]))

\* job.New(jobType, payload, maxRetry)
JobNewOf(t, p, maxRetry) ==
    /\ ~Created(1)
    /\ jobs' = [jobs EXCEPT ![1] = New(t, p, maxRetry)]
    /\ ret' = [op |-> "New", job |-> 1, arg |-> t, before |-> "none",
               err |-> FALSE]
    /\ UNCHANGED <<stored, handlers, poolVars>>

NextJobNoCheck ==
    \/ \E n \in 0..MaxRetryBound : JobNew(n)
    \/ \E t \in Types, p \in Payloads, n \in 0..MaxRetryBound : JobNewOf(t, p, n)
    \/ JobMarkRunningNoCheck(1)
    \/ JobMarkCompletedNoCheck(1)
    \/ \E m \in {ErrHandler, ErrHandlerNotFound} : JobMarkFailedNoCheck(1, m)
    \/ JobMarkCanceledNoCheck(1)

SpecJobNoCheck == InitJob /\ [][NextJobNoCheck]_vars

(* ------------------------- what the pools share ------------------------ *)
Holders(j) == {w \in Workers : hand[w] = j}

\* wg.Wait() has nothing left to wait for
AllExited == \A w \in 1..workerCount : wstate[w] = "exited"

\* Register / RegisterHandler of the registries: the map entry is overwritten
Register(t, h) ==
    /\ ~panicked
    /\ handlers' = [handlers EXCEPT ![t] = h]
    /\ UNCHANGED <<jobs, stored, ret, poolVars>>

\* a send that enters the buffer whether or not there is room
SendOverfills(j) ==
    /\ ~panicked
    /\ senders[j] > 0
    /\ IF closed
       THEN /\ panicked' = TRUE
            /\ UNCHANGED <<jobChan, senders>>
       ELSE /\ jobChan' = Append(jobChan, j)
            /\ senders' = [senders EXCEPT ![j] = @ - 1]
            /\ UNCHANGED panicked
    /\ UNCHANGED <<impl, callers, mem, quota, jobs, stored, handlers, workerCount, capacity, closed,
                   cancelled, started, stopped, wstate, hand, fn, timers,
                   calls, ret>>

\* a send that drops the job when the buffer is full instead of blocking
SendDropsWhenFull(j) ==
    /\ ~panicked
    /\ senders[j] > 0
    /\ IF closed
       THEN /\ panicked' = TRUE
            /\ UNCHANGED <<jobChan, senders>>
       ELSE /\ jobChan' = IF Len(jobChan) < capacity
                          THEN Append(jobChan, j) ELSE jobChan
            /\ senders' = [senders EXCEPT ![j] = @ - 1]
            /\ UNCHANGED panicked
    /\ UNCHANGED <<impl, callers, mem, quota, jobs, stored, handlers, workerCount, capacity, closed,
                   cancelled, started, stopped, wstate, hand, fn, timers,
                   calls, ret>>

\* A send on jobChan (WorkerPool.Submit, Pool.Enqueue, the retry task)
\* completes: into the buffer when there is room, a panic when the channel
\* is closed.
Send(j) ==
    /\ ~panicked
    /\ senders[j] > 0
    /\ IF closed
       THEN /\ panicked' = TRUE
            /\ UNCHANGED <<jobChan, senders>>
       ELSE /\ Len(jobChan) < capacity
            /\ jobChan' = Append(jobChan, j)
            /\ senders' = [senders EXCEPT ![j] = @ - 1]
            /\ UNCHANGED panicked
    /\ UNCHANGED <<impl, callers, mem, quota, jobs, stored, handlers, workerCount, capacity, closed,
                   cancelled, started, stopped, wstate, hand, fn, timers,
                   calls, ret>>

\* Start: one goroutine per worker
Start ==
    /\ ~panicked
    /\ ~started
    /\ started' = TRUE
    /\ wstate' = [w \in Workers |-> IF w \in 1..workerCount THEN "idle" ELSE wstate[w]]
    /\ UNCHANGED <<impl, callers, mem, quota, jobs, stored, handlers, workerCount, capacity, jobChan,
                   closed, cancelled, stopped, hand, fn, timers, senders,
                   calls, ret, panicked>>

\* WorkerPool.Stop up to wg.Wait(): cancel, close
Stop ==
    /\ impl \in {"A", "B"}
    /\ ~panicked
    /\ ~cancelled
    /\ cancelled' = TRUE
    /\ closed' = TRUE
    /\ stopped' = ~started
    /\ UNCHANGED <<impl, callers, mem, quota, jobs, stored, handlers, workerCount, capacity, jobChan,
                   started, wstate, hand, fn, timers, senders, calls, ret,
                   panicked>>

\* a wait that returns without waiting for the workers
WaitReturnEarly ==
    /\ ~panicked
    /\ cancelled /\ started /\ ~stopped
    /\ stopped' = TRUE
    /\ UNCHANGED <<impl, callers, mem, quota, jobs, stored, handlers, workerCount, capacity, jobChan,
                   closed, cancelled, started, wstate, hand, fn, timers,
                   senders, calls, ret, panicked>>

\* a wait that also waits for the delayed-retry tasks
WaitReturnAfterTimers ==
    /\ ~panicked
    /\ cancelled /\ started /\ ~stopped
    /\ AllExited
    /\ \A j \in JobIds : timers[j] = 0 /\ senders[j] = 0
    /\ stopped' = TRUE
    /\ UNCHANGED <<impl, callers, mem, quota, jobs, stored, handlers, workerCount, capacity, jobChan,
                   closed, cancelled, started, wstate, hand, fn, timers,
                   senders, calls, ret, panicked>>

\* wg.Wait() returns (in Stop of A and B, in Start of C)
WaitReturn ==
    /\ ~panicked
    /\ cancelled /\ started /\ ~stopped
    /\ AllExited
    /\ stopped' = TRUE
    /\ UNCHANGED <<impl, callers, mem, quota, jobs, stored, handlers, workerCount, capacity, jobChan,
                   closed, cancelled, started, wstate, hand, fn, timers,
                   senders, calls, ret, panicked>>

\* worker: case <-ctx.Done()
WorkerDone(w) ==
    /\ ~panicked
    /\ wstate[w] = "idle"
    /\ cancelled
    /\ wstate' = [wstate EXCEPT ![w] = "exited"]
    /\ UNCHANGED <<impl, callers, mem, quota, jobs, stored, handlers, workerCount, capacity, jobChan,
                   closed, cancelled, started, stopped, hand, fn, timers,
                   senders, calls, ret, panicked>>

\* the delayed-retry task wakes up after its backoff and starts its send
RetryFire(j) ==
    /\ ~panicked
    /\ timers[j] > 0
    /\ timers' = [timers EXCEPT ![j] = @ - 1]
    /\ senders' = [senders EXCEPT ![j] = @ + 1]
    /\ UNCHANGED <<impl, callers, mem, quota, jobs, stored, handlers, workerCount, capacity, jobChan,
                   closed, cancelled, started, stopped, wstate, hand, fn,
                   calls, ret, panicked>>

\* a worker takes the job at the head of jobChan and starts its handler
TakeAndCall(w, j, job, h) ==
    /\ jobChan' = Tail(jobChan)
    /\ jobs' = [jobs EXCEPT ![j] = job]
    /\ wstate' = [wstate EXCEPT ![w] = "busy"]
    /\ hand' = [hand EXCEPT ![w] = j]
    /\ fn' = [fn EXCEPT ![w] = h]
    /\ calls' = [calls EXCEPT ![j] = @ + 1]

\* a worker takes the job at the head of jobChan and is done with it at once
TakeAndDrop(j, job) ==
    /\ jobChan' = Tail(jobChan)
    /\ jobs' = [jobs EXCEPT ![j] = job]
    /\ UNCHANGED <<wstate, hand, fn, calls>>

\* the handler a worker is running returns an error
Failing(w) == HandlerFails(fn[w], calls[hand[w]] - 1)

\* the steps every iteration has
Shared ==
    \/ \E t \in RegisteredTypes, h \in HandlerFuncs : Register(t, h)
    \/ \E j \in JobIds : Send(j)
    \/ Start
    \/ WaitReturn
    \/ \E w \in Workers : WorkerDone(w)

Retries == \E j \in JobIds : RetryFire(j)

(* === A: goqueue.Queue, worker.WorkerPool (pool.go), JobProcessor ======= *)
InitA == InitIdle("A", MaxWorkers, MaxWorkers * 2)

\* a SubmitJob that sends the job to the pool without saving it
SubmitJobASkipsSave(t, maxRetry) ==
    /\ impl = "A"
    /\ ~panicked
    /\ IF ~handlers[t].reg
       THEN /\ ret' = [NoRet EXCEPT !.op = "SubmitJob", !.arg = t, !.err = TRUE]
            /\ UNCHANGED <<jobs, stored, senders>>
       ELSE \E j \in FreshIds(quota) :
            /\ jobs' = [jobs EXCEPT ![j] = New(t, SomePayload, maxRetry)]
            /\ UNCHANGED stored
            /\ senders' = [senders EXCEPT ![j] = @ + 1]
            /\ ret' = [NoRet EXCEPT !.op = "SubmitJob", !.arg = t, !.job = j]
    /\ UNCHANGED <<impl, callers, mem, quota, handlers, workerCount, capacity, jobChan, closed, cancelled,
                   started, stopped, wstate, hand, fn, timers, calls, panicked>>

\* Queue.SubmitJob up to the send of pool.Submit
SubmitJobA(t, maxRetry) ==
    /\ impl = "A"
    /\ ~panicked
    /\ IF ~handlers[t].reg
       THEN /\ ret' = [NoRet EXCEPT !.op = "SubmitJob", !.arg = t, !.err = TRUE]
            /\ UNCHANGED <<jobs, stored, senders>>
       ELSE \E j \in FreshIds(quota) :
            /\ jobs' = [jobs EXCEPT ![j] = New(t, SomePayload, maxRetry)]
            /\ stored' = stored \cup {j}
            /\ senders' = [senders EXCEPT ![j] = @ + 1]
            /\ ret' = [NoRet EXCEPT !.op = "SubmitJob", !.arg = t, !.job = j]
    /\ UNCHANGED <<impl, callers, mem, quota, handlers, workerCount, capacity, jobChan, closed, cancelled,
                   started, stopped, wstate, hand, fn, timers, calls, panicked>>

\* worker: case job := <-wp.jobChan with a job in the buffer, then
\* GetHandler and ProcessJob up to the handler call
WorkerRecvA(w) ==
    /\ impl = "A"
    /\ ~panicked
    /\ wstate[w] = "idle"
    /\ Len(jobChan) > 0
    /\ LET j == Head(jobChan)
           h == handlers[jobs[j].type]
           run == MarkRunning(jobs[j])
       IN IF ~h.reg
          THEN /\ TakeAndDrop(j, MarkFailed(jobs[j], ErrHandlerNotFound).job)
               /\ stored' = stored \cup {j}
          ELSE IF run.err
          THEN /\ TakeAndDrop(j, jobs[j])
               /\ UNCHANGED stored
          ELSE /\ TakeAndCall(w, j, run.job, h)
               /\ stored' = stored \cup {j}
    /\ UNCHANGED <<impl, callers, mem, quota, handlers, workerCount, capacity, closed, cancelled, started,
                   stopped, timers, senders, ret, panicked>>

\* worker: the receive from the closed, drained channel yields nil and
\* job.Type dereferences it
WorkerNilA(w) ==
    /\ impl = "A"
    /\ ~panicked
    /\ wstate[w] = "idle"
    /\ closed /\ Len(jobChan) = 0
    /\ panicked' = TRUE
    /\ UNCHANGED <<impl, callers, mem, quota, jobs, stored, handlers, workerCount, capacity, jobChan,
                   closed, cancelled, started, stopped, wstate, hand, fn,
                   timers, senders, calls, ret>>

\* ProcessJob from the handler's return to its end
HandlerReturnA(w) ==
    /\ impl = "A"
    /\ ~panicked
    /\ wstate[w] = "busy"
    /\ LET j == hand[w]
           r == IF Failing(w) THEN MarkFailed(jobs[j], ErrHandler)
                ELSE MarkCompleted(jobs[j])
       IN /\ jobs' = [jobs EXCEPT ![j] = r.job]
          /\ stored' = IF r.err THEN stored ELSE stored \cup {j}
    /\ wstate' = [wstate EXCEPT ![w] = "idle"]
    /\ hand' = [hand EXCEPT ![w] = 0]
    /\ fn' = [fn EXCEPT ![w] = NoHandler]
    /\ UNCHANGED <<impl, callers, mem, quota, handlers, workerCount, capacity, jobChan, closed, cancelled,
                   started, stopped, timers, senders, calls, ret, panicked>>

OnlyA ==
    \/ \E t \in Types, n \in 0..MaxRetryBound : SubmitJobA(t, n)
    \/ \E w \in Workers : WorkerRecvA(w)
    \/ \E w \in Workers : WorkerNilA(w)
    \/ \E w \in Workers : HandlerReturnA(w)

NextA == Shared \/ Stop \/ OnlyA

SpecA == InitA /\ [][NextA]_vars

(* ============ B: WorkerPool with processJob (unnamed/part_011) ========= *)
InitB == InitIdle("B", MaxWorkers, MaxWorkers * 2)

\* The caller builds a job (NewJob, Type) and calls WorkerPool.Submit, which
\* is a send on jobChan: it waits in senders until the send can complete.
SubmitB(t, maxRetry) ==
    /\ impl = "B"
    /\ ~panicked
    /\ \E j \in FreshIds(quota) :
        /\ jobs' = [jobs EXCEPT ![j] = New(t, SomePayload, maxRetry)]
        /\ senders' = [senders EXCEPT ![j] = @ + 1]
    /\ UNCHANGED <<impl, callers, mem, quota, stored, handlers, workerCount, capacity, jobChan, closed,
                   cancelled, started, stopped, wstate, hand, fn, timers,
                   calls, ret, panicked>>

\* worker: case j, ok := <-wp.jobChan with ok, then processJob up to the
\* handler call
WorkerRecvB(w) ==
    /\ impl = "B"
    /\ ~panicked
    /\ wstate[w] = "idle"
    /\ Len(jobChan) > 0
    /\ LET j == Head(jobChan)
           h == handlers[jobs[j].type]
           run == MarkRunning(jobs[j])
       IN IF ~h.reg
          THEN TakeAndDrop(j, MarkFailed(jobs[j], ErrHandlerNotFound).job)
          ELSE IF run.err
          THEN TakeAndDrop(j, MarkFailed(jobs[j], ErrInvalidStatusTransition).job)
          ELSE TakeAndCall(w, j, run.job, h)
    /\ UNCHANGED <<impl, callers, mem, quota, stored, handlers, workerCount, capacity, closed, cancelled,
                   started, stopped, timers, senders, ret, panicked>>

\* worker: the receive reports !ok (channel closed and drained)
WorkerClosedB(w) ==
    /\ impl = "B"
    /\ ~panicked
    /\ wstate[w] = "idle"
    /\ closed /\ Len(jobChan) = 0
    /\ wstate' = [wstate EXCEPT ![w] = "exited"]
    /\ UNCHANGED <<impl, callers, mem, quota, jobs, stored, handlers, workerCount, capacity, jobChan,
                   closed, cancelled, started, stopped, hand, fn, timers,
                   senders, calls, ret, panicked>>

\* a handler return after which a worker that scheduled a retry does not go
\* back to its receive loop
HandlerReturnBHoldsWorker(w) ==
    /\ impl = "B"
    /\ ~panicked
    /\ wstate[w] = "busy"
    /\ LET j == hand[w]
           after == IF Failing(w) THEN MarkFailed(jobs[j], ErrHandler).job
                    ELSE MarkCompleted(jobs[j]).job
           retry == Failing(w) /\ after.status = StatusPending
       IN /\ jobs' = [jobs EXCEPT ![j] = after]
          /\ timers' = IF retry THEN [timers EXCEPT ![j] = @ + 1] ELSE timers
          /\ wstate' = [wstate EXCEPT ![w] = IF retry THEN "exited" ELSE "idle"]
    /\ hand' = [hand EXCEPT ![w] = 0]
    /\ fn' = [fn EXCEPT ![w] = NoHandler]
    /\ UNCHANGED <<impl, callers, mem, quota, stored, handlers, workerCount, capacity, jobChan, closed,
                   cancelled, started, stopped, senders, calls, ret, panicked>>

\* processJob from the handler's return to its end
HandlerReturnB(w) ==
    /\ impl = "B"
    /\ ~panicked
    /\ wstate[w] = "busy"
    /\ LET j == hand[w]
           after == IF Failing(w) THEN MarkFailed(jobs[j], ErrHandler).job
                    ELSE MarkCompleted(jobs[j]).job
       IN /\ jobs' = [jobs EXCEPT ![j] = after]
          /\ timers' = IF Failing(w) /\ after.status = StatusPending
                       THEN [timers EXCEPT ![j] = @ + 1]
                       ELSE timers
    /\ wstate' = [wstate EXCEPT ![w] = "idle"]
    /\ hand' = [hand EXCEPT ![w] = 0]
    /\ fn' = [fn EXCEPT ![w] = NoHandler]
    /\ UNCHANGED <<impl, callers, mem, quota, stored, handlers, workerCount, capacity, jobChan, closed,
                   cancelled, started, stopped, senders, calls, ret, panicked>>

OnlyB ==
    \/ \E t \in Types, n \in 0..MaxRetryBound : SubmitB(t, n)
    \/ \E w \in Workers : WorkerRecvB(w)
    \/ \E w \in Workers : WorkerClosedB(w)
    \/ \E w \in Workers : HandlerReturnB(w)

NextB == Shared \/ Stop \/ Retries \/ OnlyB

SpecB == InitB /\ [][NextB]_vars

(* ===== C: queue.Queue, worker.Pool (unnamed/part_010), storage.Memory == *)
InitC == InitIdle("C", MaxWorkers, BufferSize)

\* Queue.Submit up to the send of Pool.Enqueue
SubmitC(t, maxRetry) ==
    /\ impl = "C"
    /\ ~panicked
    /\ \E j \in FreshIds(quota) :
        /\ jobs' = [jobs EXCEPT ![j] = New(t, SomePayload, maxRetry)]
        /\ stored' = stored \cup {j}
        /\ senders' = [senders EXCEPT ![j] = @ + 1]
    /\ UNCHANGED <<impl, callers, mem, quota, handlers, workerCount, capacity, jobChan, closed, cancelled,
                   started, stopped, wstate, hand, fn, timers, calls, ret,
                   panicked>>

\* the caller cancels the context it gave to Start
CancelC ==
    /\ impl = "C"
    /\ ~panicked
    /\ ~cancelled
    /\ cancelled' = TRUE
    /\ stopped' = FALSE
    /\ UNCHANGED <<impl, callers, mem, quota, jobs, stored, handlers, workerCount, capacity, jobChan,
                   closed, started, wstate, hand, fn, timers, senders, calls,
                   ret, panicked>>

\* worker: case j := <-p.jobs, then processJob up to the handler call
WorkerRecvC(w) ==
    /\ impl = "C"
    /\ ~panicked
    /\ wstate[w] = "idle"
    /\ Len(jobChan) > 0
    /\ LET j == Head(jobChan)
           h == handlers[jobs[j].type]
           run == MarkRunningNoCheck(jobs[j])
       IN IF j \notin stored
          THEN TakeAndDrop(j, run)
          ELSE IF ~h.reg
          THEN TakeAndDrop(j, MarkFailedNoCheck(run, ErrHandlerNotFound))
          ELSE TakeAndCall(w, j, run, h)
    /\ UNCHANGED <<impl, callers, mem, quota, stored, handlers, workerCount, capacity, closed, cancelled,
                   started, stopped, timers, senders, ret, panicked>>

\* processJob from the handler's return to the start of the retry task
HandlerReturnC(w) ==
    /\ impl = "C"
    /\ ~panicked
    /\ wstate[w] = "busy"
    /\ LET j == hand[w]
           after == IF Failing(w) THEN MarkFailedNoCheck(jobs[j], ErrHandler)
                    ELSE MarkCompletedNoCheck(jobs[j])
       IN /\ jobs' = [jobs EXCEPT ![j] = after]
          /\ timers' = IF Failing(w) /\ CanRetry(after)
                       THEN [timers EXCEPT ![j] = @ + 1]
                       ELSE timers
    /\ wstate' = [wstate EXCEPT ![w] = "saving"]
    /\ UNCHANGED <<impl, callers, mem, quota, stored, handlers, workerCount, capacity, jobChan, closed,
                   cancelled, started, stopped, hand, fn, senders, calls, ret,
                   panicked>>

\* processJob: "Save final state", storage.Update of the job in hand (the map
\* entry is the pointer it already holds when the id is present)
SaveFinalC(w) ==
    /\ impl = "C"
    /\ ~panicked
    /\ wstate[w] = "saving"
    /\ wstate' = [wstate EXCEPT ![w] = "idle"]
    /\ hand' = [hand EXCEPT ![w] = 0]
    /\ fn' = [fn EXCEPT ![w] = NoHandler]
    /\ UNCHANGED <<impl, callers, mem, quota, jobs, stored, handlers, workerCount, capacity, jobChan,
                   closed, cancelled, started, stopped, timers, senders,
                   calls, ret, panicked>>

OnlyC ==
    \/ \E t \in Types, n \in 0..MaxRetryBound : SubmitC(t, n)
    \/ CancelC
    \/ \E w \in Workers : WorkerRecvC(w)
    \/ \E w \in Workers : HandlerReturnC(w)
    \/ \E w \in Workers : SaveFinalC(w)

NextC == Shared \/ Retries \/ OnlyC

SpecC == InitC /\ [][NextC]_vars

\* the caller, who gave the store to queue.New, deletes a job from it
DeleteC(j) ==
    /\ impl = "C"
    /\ ~panicked
    /\ j \in stored
    /\ stored' = stored \ {j}
    /\ UNCHANGED <<impl, callers, mem, quota, jobs, handlers, workerCount, capacity, jobChan,
                   closed, cancelled, started, stopped, wstate, hand, fn, timers, senders,
                   calls, ret, panicked>>

NextCDelete == NextC \/ \E j \in JobIds : DeleteC(j)

SpecCDelete == InitC /\ [][NextCDelete]_vars

(* ============================ scheduling ============================== *)
\* the next step of a worker goroutine that is not waiting: take a job,
\* return from the handler, save
WorkerStep(w) ==
    \/ WorkerRecvA(w) \/ HandlerReturnA(w)
    \/ WorkerRecvB(w) \/ HandlerReturnB(w)
    \/ WorkerRecvC(w) \/ HandlerReturnC(w) \/ SaveFinalC(w)

\* A goroutine that can run does run: a worker takes its next step, a retry
\* task wakes up when its backoff is over, a send completes once the buffer
\* has room (the sends of a run are finitely many, so none is passed over
\* for ever).
Fair ==
    /\ \A w \in Workers : WF_vars(WorkerStep(w))
    /\ \A j \in JobIds : WF_vars(RetryFire(j))
    /\ \A j \in JobIds : WF_vars(Send(j))

FairSpecA == SpecA /\ Fair

FairSpecB == SpecB /\ Fair

FairSpecC == SpecC /\ Fair

(* ===================== all three iterations ============================ *)
Init == InitA \/ InitB \/ InitC

Next == Shared \/ Stop \/ Retries \/ OnlyA \/ OnlyB \/ OnlyC

Spec == Init /\ [][Next]_vars

FairSpec == Spec /\ Fair

\* the two pools that re-enqueue a failed job
InitRetry == InitB \/ InitC

NextRetry == Shared \/ Stop \/ Retries \/ OnlyB \/ OnlyC

SpecRetry == InitRetry /\ [][NextRetry]_vars

FairSpecRetry == SpecRetry /\ Fair

(* ============ a burst of jobs on a running pool, handler nil =========== *)
\* Any of the three pools, built for n workers, "echo" registered with a
\* handler that returns nil, Start called; the callers submit BurstJobs jobs.
InitBurst ==
    /\ impl \in {"A", "B", "C"}
    /\ workerCount \in 1..MaxWorkers
    /\ capacity = IF impl = "C" THEN BufferSize ELSE workerCount * 2
    /\ quota = BurstJobs
    /\ jobs = [j \in JobIds |-> NoJob]
    /\ stored = {}
    /\ handlers = [t \in Types |-> IF t \in RegisteredTypes THEN OkHandler ELSE NoHandler]
    /\ jobChan = <<>>
    /\ closed = FALSE
    /\ cancelled = FALSE
    /\ started = TRUE
    /\ stopped = FALSE
    /\ wstate = [w \in Workers |-> IF w \in 1..workerCount THEN "idle" ELSE "new"]
    /\ hand = [w \in Workers |-> 0]
    /\ fn = [w \in Workers |-> NoHandler]
    /\ timers = [j \in JobIds |-> 0]
    /\ senders = [j \in JobIds |-> 0]
    /\ calls = [j \in JobIds |-> 0]
    /\ ret = NoRet
    /\ panicked = FALSE
    /\ callers = NoCallers
    /\ mem = NoMem

NextBurst ==
    \/ \E t \in RegisteredTypes, n \in 0..MaxRetryBound : SubmitJobA(t, n)
    \/ \E t \in RegisteredTypes, n \in 0..MaxRetryBound : SubmitB(t, n)
    \/ \E t \in RegisteredTypes, n \in 0..MaxRetryBound : SubmitC(t, n)
    \/ \E j \in JobIds : Send(j)
    \/ \E w \in Workers : WorkerRecvA(w)
    \/ \E w \in Workers : WorkerRecvB(w)
    \/ \E w \in Workers : WorkerRecvC(w)
    \/ \E w \in Workers : HandlerReturnA(w)
    \/ \E w \in Workers : HandlerReturnB(w)
    \/ \E w \in Workers : HandlerReturnC(w)
    \/ \E w \in Workers : SaveFinalC(w)

SpecBurst == InitBurst /\ [][NextBurst]_vars

FairSpecBurst == SpecBurst /\ Fair

(* ========== one worker on a retrying pool, more jobs than slots ======== *)
\* The pool of part_011 or of part_010 built for one worker and started,
\* "echo" registered with any handler; the callers submit BurstJobs jobs.
InitSolo ==
    /\ impl \in {"B", "C"}
    /\ workerCount = 1
    /\ capacity = IF impl = "C" THEN BufferSize ELSE workerCount * 2
    /\ quota = BurstJobs
    /\ jobs = [j \in JobIds |-> NoJob]
    /\ stored = {}
    /\ \E h \in HandlerFuncs :
         handlers = [t \in Types |-> IF t \in RegisteredTypes THEN h ELSE NoHandler]
    /\ jobChan = <<>>
    /\ closed = FALSE
    /\ cancelled = FALSE
    /\ started = TRUE
    /\ stopped = FALSE
    /\ wstate = [w \in Workers |-> IF w \in 1..workerCount THEN "idle" ELSE "new"]
    /\ hand = [w \in Workers |-> 0]
    /\ fn = [w \in Workers |-> NoHandler]
    /\ timers = [j \in JobIds |-> 0]
    /\ senders = [j \in JobIds |-> 0]
    /\ calls = [j \in JobIds |-> 0]
    /\ ret = NoRet
    /\ panicked = FALSE
    /\ callers = NoCallers
    /\ mem = NoMem

NextSolo ==
    \/ \E t \in RegisteredTypes, n \in 0..MaxRetryBound : SubmitB(t, n)
    \/ \E t \in RegisteredTypes, n \in 0..MaxRetryBound : SubmitC(t, n)
    \/ \E j \in JobIds : Send(j)
    \/ \E j \in JobIds : RetryFire(j)
    \/ \E w \in Workers : WorkerRecvB(w)
    \/ \E w \in Workers : WorkerRecvC(w)
    \/ \E w \in Workers : HandlerReturnB(w)
    \/ \E w \in Workers : HandlerReturnC(w)
    \/ \E w \in Workers : SaveFinalC(w)

SpecSolo == InitSolo /\ [][NextSolo]_vars

(* ================= the handler registry on its own ===================== *)
\* Registry.Get: the entry of the map, or the not-found error
Get(t) ==
    IF ~handlers[t].reg
    THEN [fn |-> NoHandler, err |-> ErrHandlerNotFound]
    ELSE [fn |-> handlers[t], err |-> NoError]

InitRegistry == InitIdle("registry", 1, 1)

\* a registration that keeps the handler a type already has
RegistryRegisterKeepsFirst(t, h) ==
    /\ handlers' = IF handlers[t].reg THEN handlers ELSE [handlers EXCEPT ![t] = h]
    /\ ret' = [op |-> "Register", job |-> 0, arg |-> t,
               before |-> IF handlers[t].reg THEN "registered" ELSE "",
               err |-> FALSE, fn |-> h]
    /\ UNCHANGED <<jobs, stored, poolVars>>

\* a caller's Register(t, h); ret keeps the arguments of the call and
\* whether the type had a handler before it
RegistryRegister(t, h) ==
    /\ handlers' = [handlers EXCEPT ![t] = h]
    /\ ret' = [op |-> "Register", job |-> 0, arg |-> t,
               before |-> IF handlers[t].reg THEN "registered" ELSE "",
               err |-> FALSE, fn |-> h]
    /\ UNCHANGED <<jobs, stored, poolVars>>

\* a caller's Get(t); ret keeps what it returned
RegistryGet(t) ==
    /\ ret' = [op |-> "Get", job |-> 0, arg |-> t, before |-> "",
               err |-> Get(t).err # NoError, fn |-> Get(t).fn]
    /\ UNCHANGED <<jobs, stored, handlers, poolVars>>

\* Registry.Has
Has(t) == handlers[t].reg

\* a caller's Has(t); ret.err keeps "no handler"
RegistryHas(t) ==
    /\ ret' = [op |-> "Has", job |-> 0, arg |-> t, before |-> "",
               err |-> ~Has(t), fn |-> NoHandler]
    /\ UNCHANGED <<jobs, stored, handlers, poolVars>>

NextRegistry ==
    \/ \E t \in Types, h \in HandlerFuncs : RegistryRegister(t, h)
    \/ \E t \in Types : RegistryGet(t)
    \/ \E t \in Types : RegistryHas(t)

SpecRegistry == InitRegistry /\ [][NextRegistry]_vars

(* ============ the registry called by several goroutines ================ *)
\* impl = "registry": RegisterHandler takes mu.Lock, GetHandler mu.RLock;
\* impl = "registryNoLock": the Registry whose methods touch the map directly
Locked == impl = "registry"

Writing == {c \in Callers : callers[c].pc = "writing"}
Reading == {c \in Callers : callers[c].pc = "reading"}

\* what a map read that races with a write can hand back besides the entries
TornEntry == [reg |-> TRUE, always |-> FALSE, k |-> 0 - 1]

InitRegistryCalls == \E i \in {"registry", "registryNoLock"} : InitIdle(i, 1, 1)

\* RegisterHandler up to the start of its map write: with the lock it waits
\* until no reader and no writer is inside
RegisterBegin(c, t, h) ==
    /\ ~panicked
    /\ callers[c].pc = "idle"
    /\ Locked => Writing \cup Reading = {}
    /\ callers' = [d \in Callers |->
                     IF d = c
                     THEN [pc |-> "writing", type |-> t, fn |-> h,
                           raced |-> Writing \cup Reading # {}]
                     ELSE IF callers[d].pc # "idle"
                          THEN [callers[d] EXCEPT !.raced = TRUE]
                          ELSE callers[d]]
    /\ UNCHANGED <<impl, mem, quota, jobs, stored, handlers, workerCount, capacity, jobChan,
                   closed, cancelled, started, stopped, wstate, hand, fn, timers, senders,
                   calls, ret, panicked>>

\* the map write ends and RegisterHandler returns; a write that raced with
\* another access is a data race: the entry is written, or lost, or the
\* runtime stops the program
RegisterEnd(c) ==
    /\ ~panicked
    /\ callers[c].pc = "writing"
    /\ callers' = [callers EXCEPT ![c] = NoCall]
    /\ IF callers[c].raced
       THEN \/ /\ handlers' = [handlers EXCEPT ![callers[c].type] = callers[c].fn]
               /\ UNCHANGED panicked
            \/ /\ UNCHANGED handlers
               /\ UNCHANGED panicked
            \/ /\ UNCHANGED handlers
               /\ panicked' = TRUE
       ELSE /\ handlers' = [handlers EXCEPT ![callers[c].type] = callers[c].fn]
            /\ UNCHANGED panicked
    /\ ret' = [op |-> "Register", job |-> 0, arg |-> callers[c].type, before |-> "",
               err |-> FALSE, fn |-> callers[c].fn]
    /\ UNCHANGED <<impl, mem, quota, jobs, stored, workerCount, capacity, jobChan,
                   closed, cancelled, started, stopped, wstate, hand, fn, timers, senders,
                   calls>>

\* GetHandler up to the start of its map read: with the lock it waits until
\* no writer is inside (readers share)
GetBegin(c, t) ==
    /\ ~panicked
    /\ callers[c].pc = "idle"
    /\ Locked => Writing = {}
    /\ callers' = [callers EXCEPT ![c] = [pc |-> "reading", type |-> t, fn |-> NoHandler,
                                           raced |-> Writing # {}]]
    /\ UNCHANGED <<impl, mem, quota, jobs, stored, handlers, workerCount, capacity, jobChan,
                   closed, cancelled, started, stopped, wstate, hand, fn, timers, senders,
                   calls, ret, panicked>>

\* the map read ends and GetHandler returns; a read that raced with a write
\* returns any entry, a torn one, not-found, or the runtime stops the program
GetEnd(c) ==
    /\ ~panicked
    /\ callers[c].pc = "reading"
    /\ callers' = [callers EXCEPT ![c] = NoCall]
    /\ IF callers[c].raced
       THEN \/ /\ \E h \in HandlerFuncs \cup {NoHandler, TornEntry} :
                     ret' = [op |-> "Get", job |-> 0, arg |-> callers[c].type, before |-> "",
                             err |-> ~h.reg, fn |-> h]
               /\ UNCHANGED panicked
            \/ /\ panicked' = TRUE
               /\ UNCHANGED ret
       ELSE /\ ret' = [op |-> "Get", job |-> 0, arg |-> callers[c].type, before |-> "",
                       err |-> Get(callers[c].type).err # NoError,
                       fn |-> Get(callers[c].type).fn]
            /\ UNCHANGED panicked
    /\ UNCHANGED <<impl, mem, quota, jobs, stored, handlers, workerCount, capacity, jobChan,
                   closed, cancelled, started, stopped, wstate, hand, fn, timers, senders,
                   calls>>

NextRegistryCalls ==
    \/ \E c \in Callers, t \in Types, h \in HandlerFuncs : RegisterBegin(c, t, h)
    \/ \E c \in Callers : RegisterEnd(c)
    \/ \E c \in Callers, t \in Types : GetBegin(c, t)
    \/ \E c \in Callers : GetEnd(c)

SpecRegistryCalls == InitRegistryCalls /\ [][NextRegistryCalls]_vars

\* the registry with the lock alone
InitRegistryLocked == InitIdle("registry", 1, 1)

SpecRegistryLocked == InitRegistryLocked /\ [][NextRegistryCalls]_vars

(* ====================== the job store on its own ======================= *)
\* impl = "MemoryStorage": the store of internal/storage, whose map is the
\* package variable jobStorage, one for all instances;
\* impl = "Memory": the store with a map and a lock of its own.
\* The map holds pointers: an entry is the Job object itself (its index)
MapOf(s) == IF impl = "MemoryStorage" THEN "s1" ELSE s

\* the map entry of store s for an ID, 0 for none
Lookup(s, k) == mem.map[MapOf(s)][k]

\* the objects a caller has built so far
Built == {o \in JobIds : mem.idOf[o] # ""}

InitStore ==
    \E i \in {"MemoryStorage", "Memory"} : InitIdle(i, 1, 1)

StoreRet(op, s, k, o, old, e) ==
    [op |-> op, job |-> o, arg |-> k, before |-> s, err |-> e, old |-> old]

\* a caller builds a Job object with the ID k
StoreNewJob(o, k) ==
    /\ o \notin Built
    /\ \A i \in 1..(o - 1) : i \in Built
    /\ mem' = [mem EXCEPT !.idOf[o] = k]
    /\ UNCHANGED <<impl, callers, quota, jobs, stored, handlers, workerCount, capacity,
                   jobChan, closed, cancelled, started, stopped, wstate, hand, fn, timers,
                   senders, calls, ret, panicked>>

\* Save / SaveJob
StoreSave(s, o) ==
    /\ o \in Built
    /\ mem' = [mem EXCEPT !.map[MapOf(s)][mem.idOf[o]] = o]
    /\ ret' = StoreRet("Save", s, mem.idOf[o], o, Lookup(s, mem.idOf[o]), FALSE)
    /\ UNCHANGED <<impl, callers, quota, jobs, stored, handlers, workerCount, capacity,
                   jobChan, closed, cancelled, started, stopped, wstate, hand, fn, timers,
                   senders, calls, panicked>>

\* Get / GetJob: the entry, or not found
StoreGet(s, k) ==
    /\ ret' = StoreRet("Get", s, k, Lookup(s, k), Lookup(s, k), Lookup(s, k) = 0)
    /\ UNCHANGED <<impl, callers, mem, quota, jobs, stored, handlers, workerCount, capacity,
                   jobChan, closed, cancelled, started, stopped, wstate, hand, fn, timers,
                   senders, calls, panicked>>

\* an update that writes the entry whether or not the ID is in the map
StoreUpdateUpserts(s, o) ==
    /\ o \in Built
    /\ mem' = [mem EXCEPT !.map[MapOf(s)][mem.idOf[o]] = o]
    /\ ret' = StoreRet("Update", s, mem.idOf[o], o, Lookup(s, mem.idOf[o]), FALSE)
    /\ UNCHANGED <<impl, callers, quota, jobs, stored, handlers, workerCount, capacity,
                   jobChan, closed, cancelled, started, stopped, wstate, hand, fn, timers,
                   senders, calls, panicked>>

\* Update / UpdateJob: not found unless the ID is in the map
StoreUpdate(s, o) ==
    /\ o \in Built
    /\ IF Lookup(s, mem.idOf[o]) = 0
       THEN /\ ret' = StoreRet("Update", s, mem.idOf[o], o, 0, TRUE)
            /\ UNCHANGED mem
       ELSE /\ mem' = [mem EXCEPT !.map[MapOf(s)][mem.idOf[o]] = o]
            /\ ret' = StoreRet("Update", s, mem.idOf[o], o, Lookup(s, mem.idOf[o]), FALSE)
    /\ UNCHANGED <<impl, callers, quota, jobs, stored, handlers, workerCount, capacity,
                   jobChan, closed, cancelled, started, stopped, wstate, hand, fn, timers,
                   senders, calls, panicked>>

\* Memory.Delete: not found unless the ID is in the map
StoreDelete(s, k) ==
    /\ impl = "Memory"
    /\ IF Lookup(s, k) = 0
       THEN /\ ret' = StoreRet("Delete", s, k, 0, 0, TRUE)
            /\ UNCHANGED mem
       ELSE /\ mem' = [mem EXCEPT !.map[MapOf(s)][k] = 0]
            /\ ret' = StoreRet("Delete", s, k, 0, Lookup(s, k), FALSE)
    /\ UNCHANGED <<impl, callers, quota, jobs, stored, handlers, workerCount, capacity,
                   jobChan, closed, cancelled, started, stopped, wstate, hand, fn, timers,
                   senders, calls, panicked>>

\* MemoryStorage.ClearStorage: a new empty map
StoreClear(s) ==
    /\ impl = "MemoryStorage"
    /\ mem' = [mem EXCEPT !.map[MapOf(s)] = [k \in Keys |-> 0]]
    /\ ret' = StoreRet("Clear", s, "", 0, 0, FALSE)
    /\ UNCHANGED <<impl, callers, quota, jobs, stored, handlers, workerCount, capacity,
                   jobChan, closed, cancelled, started, stopped, wstate, hand, fn, timers,
                   senders, calls, panicked>>

NextStore ==
    \/ \E o \in JobIds, k \in Keys : StoreNewJob(o, k)
    \/ \E s \in Stores, o \in JobIds : StoreSave(s, o)
    \/ \E s \in Stores, k \in Keys : StoreGet(s, k)
    \/ \E s \in Stores, o \in JobIds : StoreUpdate(s, o)
    \/ \E s \in Stores, k \in Keys : StoreDelete(s, k)
    \/ \E s \in Stores : StoreClear(s)

SpecStore == InitStore /\ [][NextStore]_vars

(* =================== the job processor called directly ================= *)
\* impl = "ProcessJob": the processor that holds a store and saves the job
\* after each transition; impl = "Process": the processor without a store.
\* The caller is goroutine 1; its job is job 1.
InitProcess == \E i \in {"ProcessJob", "Process"} : InitIdle(i, 1, 1)

\* ProcessJob up to the handler call: MarkRunning, save, invoke
ProcessJobCall(h) ==
    /\ Created(1)
    /\ hand[1] = 0
    /\ jobs[1].attempts < MaxAttempts
    /\ LET run == MarkRunning(jobs[1])
       IN IF run.err
          THEN /\ ret' = [op |-> "ProcessJob", job |-> 1, arg |-> ErrInvalidStatusTransition,
                          before |-> jobs[1].status, err |-> TRUE]
               /\ UNCHANGED <<jobs, stored, wstate, hand, fn, calls>>
          ELSE /\ jobs' = [jobs EXCEPT ![1] = run.job]
               /\ stored' = IF impl = "ProcessJob" THEN stored \cup {1} ELSE stored
               /\ wstate' = [wstate EXCEPT ![1] = "busy"]
               /\ hand' = [hand EXCEPT ![1] = 1]
               /\ fn' = [fn EXCEPT ![1] = h]
               /\ calls' = [calls EXCEPT ![1] = @ + 1]
               /\ ret' = [op |-> "", job |-> 1, arg |-> "",
                          before |-> jobs[1].status, err |-> FALSE]
    /\ UNCHANGED <<impl, callers, mem, quota, handlers, workerCount, capacity, jobChan, closed,
                   cancelled, started, stopped, timers, senders, panicked>>

\* the handler returns: MarkFailed or MarkCompleted, save, return
ProcessJobReturn ==
    /\ wstate[1] = "busy"
    /\ hand[1] = 1
    /\ LET r == IF Failing(1) THEN MarkFailed(jobs[1], ErrHandler)
                ELSE MarkCompleted(jobs[1])
       IN /\ jobs' = [jobs EXCEPT ![1] = r.job]
          /\ stored' = IF ~r.err /\ impl = "ProcessJob" THEN stored \cup {1} ELSE stored
          /\ ret' = [op |-> "ProcessJob", job |-> 1,
                     arg |-> IF r.err THEN ErrInvalidStatusTransition
                             ELSE IF Failing(1) THEN ErrHandler ELSE NoError,
                     before |-> ret.before, err |-> r.err \/ Failing(1)]
    /\ wstate' = [wstate EXCEPT ![1] = "new"]
    /\ hand' = [hand EXCEPT ![1] = 0]
    /\ fn' = [fn EXCEPT ![1] = NoHandler]
    /\ UNCHANGED <<impl, callers, mem, quota, handlers, workerCount, capacity, jobChan, closed,
                   cancelled, started, stopped, timers, senders, calls, panicked>>

\* between two calls of the processor the caller may use the job's own methods
NextProcess ==
    \/ \E n \in 0..MaxRetryBound : JobNew(n)
    \/ \E h \in HandlerFuncs : ProcessJobCall(h)
    \/ ProcessJobReturn
    \/ hand[1] = 0 /\ JobMarkRunning(1)
    \/ hand[1] = 0 /\ JobMarkCompleted(1)
    \/ hand[1] = 0 /\ JobMarkFailed(1, ErrHandler)

SpecProcess == InitProcess /\ [][NextProcess]_vars

(* ============== the job store called by several goroutines ============= *)
\* One store, "s1". impl = "Memory": every method takes mu (Lock for Save,
\* Update, Delete; RLock for Get, List); impl = "MemoryStorage": the methods
\* touch the package-level map directly.
StoreLocked == impl = "Memory"

WriteOps == {"Save", "Update", "Delete"}
ReadOps == {"Get", "List"}

\* the methods each store has
OpsOf(i) == IF i = "Memory" THEN WriteOps \cup ReadOps ELSE {"Save", "Update", "Get"}

Present(k) == Lookup("s1", k) # 0

\* the map after a call that ran alone
MapAfter(op, k, o) ==
    CASE op = "Save" -> [mem EXCEPT !.map["s1"][k] = o]
      [] op = "Update" -> IF Present(k) THEN [mem EXCEPT !.map["s1"][k] = o] ELSE mem
      [] op = "Delete" -> IF Present(k) THEN [mem EXCEPT !.map["s1"][k] = 0] ELSE mem
      [] OTHER -> mem

\* whether a call that ran alone reports not-found
NotFound(op, k) == op \in {"Update", "Delete", "Get"} /\ ~Present(k)

InitStoreCalls == InitStore

\* a caller builds one of its Job objects
StoreCallsNewJob(o, k) ==
    /\ ~panicked
    /\ o \in 1..MaxJobs
    /\ StoreNewJob(o, k)

\* a store method up to the start of its access to the map; with the lock a
\* writer waits until nobody is inside and a reader until no writer is.
\* o is the job of Save and Update (0 for the others), k the ID
StoreBegin(c, op, k, o) ==
    /\ ~panicked
    /\ callers[c].pc = "idle"
    /\ op \in OpsOf(impl)
    /\ IF op \in {"Save", "Update"} THEN o \in Built /\ k = mem.idOf[o] ELSE o = 0
    /\ StoreLocked => IF op \in WriteOps THEN Writing \cup Reading = {} ELSE Writing = {}
    /\ callers' = [d \in Callers |->
                     IF d = c
                     THEN [pc |-> IF op \in WriteOps THEN "writing" ELSE "reading",
                           op |-> op, key |-> k, obj |-> o,
                           raced |-> IF op \in WriteOps THEN Writing \cup Reading # {}
                                     ELSE Writing # {}]
                     ELSE IF callers[d].pc # "idle" /\ op \in WriteOps
                          THEN [callers[d] EXCEPT !.raced = TRUE]
                          ELSE callers[d]]
    /\ UNCHANGED <<impl, mem, quota, jobs, stored, handlers, workerCount, capacity, jobChan,
                   closed, cancelled, started, stopped, wstate, hand, fn, timers, senders,
                   calls, ret, panicked>>

\* the access ends and the method returns. An access that raced with a write
\* is a data race on the map: the write lands or is lost, the read returns
\* anything, or the runtime stops the program
StoreEnd(c) ==
    /\ ~panicked
    /\ callers[c].pc # "idle"
    /\ callers' = [callers EXCEPT ![c] = NoCall]
    /\ LET op == callers[c].op
           k == callers[c].key
           o == callers[c].obj
       IN IF callers[c].raced
          THEN \/ /\ mem' = MapAfter(op, k, o)
                  /\ \E e \in BOOLEAN : ret' = [NoRet EXCEPT !.op = op, !.err = e]
                  /\ UNCHANGED panicked
               \/ /\ UNCHANGED mem
                  /\ \E e \in BOOLEAN : ret' = [NoRet EXCEPT !.op = op, !.err = e]
                  /\ UNCHANGED panicked
               \/ /\ panicked' = TRUE
                  /\ UNCHANGED <<mem, ret>>
          ELSE /\ mem' = MapAfter(op, k, o)
               /\ ret' = [NoRet EXCEPT !.op = op, !.err = NotFound(op, k)]
               /\ UNCHANGED panicked
    /\ UNCHANGED <<impl, quota, jobs, stored, handlers, workerCount, capacity, jobChan,
                   closed, cancelled, started, stopped, wstate, hand, fn, timers, senders,
                   calls>>

NextStoreCalls ==
    \/ \E o \in JobIds, k \in Keys : StoreCallsNewJob(o, k)
    \/ \E c \in Callers, op \in WriteOps \cup ReadOps, k \in Keys, o \in 0..MaxJobs :
          StoreBegin(c, op, k, o)
    \/ \E c \in Callers : StoreEnd(c)

SpecStoreCalls == InitStoreCalls /\ [][NextStoreCalls]_vars

\* the store with the lock alone
InitStoreLocked == InitIdle("Memory", 1, 1)

SpecStoreLocked == InitStoreLocked /\ [][NextStoreCalls]_vars

(* ============ the job alone, or any of the three pools ================= *)
InitAll == InitJob \/ Init

NextAll ==
    \/ impl = "job" /\ NextJob
    \/ impl # "job" /\ Next

SpecAll == InitAll /\ [][NextAll]_vars

(* ============================== claims ================================= *)
\* the pool was started and is never stopped
PoolRuns == <>started /\ []~cancelled

HandlerOf(j) == handlers[jobs[j].type]

InProgress(j) == jobs[j].status \in {StatusProcessing, StatusRunning}

\* C1: on a running pool, a job with MaxRetry = N whose handler always
\* returns an error eventually is Failed for good, with Attempts = N
\* (N = 0 and N = 1 included)
C1_FailingJobEndsFailedAtMaxRetry ==
    \A j \in 1..MaxJobs :
        (PoolRuns /\ [](Created(j) => HandlerOf(j) = FailHandler))
            => [](Created(j) =>
                    <>[](/\ jobs[j].status = StatusFailed
                         /\ jobs[j].attempts = jobs[j].maxRetry))

\* C2: on a running pool, a job whose handler always succeeds eventually
\* is Completed with an empty Error, whatever its MaxRetry
C2_SucceedingJobCompletes ==
    \A j \in 1..MaxJobs :
        (PoolRuns /\ [](Created(j) => HandlerOf(j) = OkHandler))
            => [](Created(j) =>
                    <>(jobs[j].status = StatusCompleted /\ jobs[j].error = NoError))

C2_Witness ==
    \E j \in JobIds :
        /\ jobs[j].status = StatusCompleted /\ jobs[j].error = NoError
        /\ HandlerOf(j) = OkHandler /\ calls[j] = 1
        /\ started /\ ~cancelled

C4_NoTwoWorkersHoldOneJob ==
    \A j \in JobIds : Cardinality(Holders(j)) <= 1

\* C5: a Submit for a type with no registered handler returns an error and
\* leaves the jobs, the store and the intake queue as they were
C5_SubmitUnregisteredCreatesNothing ==
    [][(\E t \in Types, n \in 0..MaxRetryBound :
            /\ ~handlers[t].reg
            /\ (SubmitJobA(t, n) \/ SubmitC(t, n)))
        => (ret'.err /\ UNCHANGED <<jobs, stored, jobChan, senders>>)]_vars

\* C6: when N jobs are submitted to W running workers and the handler
\* always succeeds, every job eventually is Completed, and whenever the
\* intake queue is empty and all workers are idle no job is in progress
Drained ==
    /\ jobChan = <<>>
    /\ \A w \in 1..workerCount : wstate[w] = "idle"

C6_BurstDrains ==
    /\ \A j \in JobIds :
           [](Created(j) => <>(jobs[j].status = StatusCompleted))
    /\ [](Drained => \A j \in JobIds : ~InProgress(j))

C6_Witness ==
    /\ Drained
    /\ BurstJobs > capacity
    /\ \A j \in JobIds : jobs[j].status = StatusCompleted

\* C7: ChangeStatus(to) succeeds exactly for Pending->Processing,
\* Processing->Completed, Processing->Failed and Processing->Pending, and a
\* refused call leaves the status as it was
TransitionTable ==
    {<<StatusPending, StatusProcessing>>, <<StatusProcessing, StatusCompleted>>,
     <<StatusProcessing, StatusFailed>>, <<StatusProcessing, StatusPending>>}

C7_ChangeStatusFollowsTable ==
    ret.op = "ChangeStatus" =>
        LET allowed == <<ret.before, ret.arg>> \in TransitionTable IN
        /\ ret.err <=> ~allowed
        /\ jobs[ret.job].status = IF allowed THEN ret.arg ELSE ret.before

C7_Witness ==
    /\ ret.op = "ChangeStatus" /\ ~ret.err
    /\ ret.before = StatusProcessing /\ ret.arg = StatusPending

\* C8: once a job is Completed or Failed, no call and no engine step
\* changes its status again
C8_TerminalStatusStays ==
    [][\A j \in JobIds :
         jobs[j].status \in {StatusCompleted, StatusFailed}
            => jobs'[j].status = jobs[j].status]_vars

\* C9: a Failed job has Attempts <= MaxRetry, whatever MaxRetry the caller
\* passed (0 included)
C9_FailedWithinMaxRetry ==
    \A j \in JobIds :
        jobs[j].status = StatusFailed => jobs[j].attempts <= jobs[j].maxRetry

\* C10: the handler is invoked for a job at most MaxRetry times
C10_CallsWithinMaxRetry ==
    \A j \in JobIds : Created(j) => calls[j] <= jobs[j].maxRetry

\* the step brings job j into Processing (Running in the pool of part_010)
\* from another status: j is in progress after it, or a worker of part_010
\* took j, marked it running and failed it for want of a handler
EntersProcessing(j) ==
    /\ ~InProgress(j)
    /\ \/ InProgress(j)'
       \/ /\ Len(jobChan) > 0 /\ Head(jobChan) = j
          /\ \E w \in Workers : WorkerRecvC(w)

\* C11: Attempts is 0 when the job is created, and a step changes it only
\* by adding exactly 1, and only a step that brings the job into Processing
\* from another status
C11_AttemptsCountEntries ==
    [][\A j \in JobIds :
         /\ (~Created(j) /\ Created(j)') => jobs'[j].attempts = 0
         /\ Created(j) =>
              \/ jobs'[j].attempts = jobs[j].attempts
              \/ /\ jobs'[j].attempts = jobs[j].attempts + 1
                 /\ EntersProcessing(j)]_vars

C11_Witness ==
    \E j \in JobIds :
        /\ jobs[j].attempts = 2 /\ InProgress(j)
        /\ calls[j] = 2

\* C12: a worker that takes a job whose type has no registered handler
\* leaves it Failed, invokes no handler and schedules no re-enqueue
C12_NoHandlerFailsAtOnce ==
    [][\A w \in Workers :
         (/\ Len(jobChan) > 0
          /\ ~handlers[jobs[Head(jobChan)].type].reg
          /\ (WorkerRecvA(w) \/ WorkerRecvB(w) \/ WorkerRecvC(w)))
         => /\ jobs'[Head(jobChan)].status = StatusFailed
            /\ UNCHANGED <<calls, timers, senders, hand>>]_vars

\* C13: the intake queue never holds more jobs than its capacity; a send
\* that finds it full waits and, once a worker has freed a slot, puts the job
\* at the back of the queue; no send ends without its job in the queue, and
\* no submission returns an error because the queue was full
C13_SubmitBlocksNeverDrops ==
    /\ [](Len(jobChan) <= capacity)
    /\ [][\A j \in JobIds :
            senders'[j] < senders[j] => jobChan' = Append(jobChan, j)]_vars
    /\ [](ret.op = "SubmitJob" => ~ret.err)
    /\ \A j \in JobIds : [](senders[j] > 0 => <>(senders[j] = 0))

C13_Witness ==
    /\ Len(jobChan) = capacity
    /\ \E j \in JobIds : senders[j] > 0
    /\ \E j \in JobIds : jobs[j].status = StatusCompleted

\* C14: when the wait of Stop (of Start, in the pool of part_010) returns on a
\* started pool, every worker has exited, none holds a job and no job is in
\* Processing; and a worker exits only from its receive loop, with no job in
\* hand
C14_StopIsBarrier ==
    [][/\ (~stopped /\ stopped' /\ started')
            => /\ AllExited'
               /\ \A w \in Workers : hand'[w] = 0
               /\ \A j \in JobIds :
                    jobs'[j].status \notin {StatusProcessing, StatusRunning}
       /\ \A w \in Workers :
            (wstate[w] # "exited" /\ wstate'[w] = "exited")
                => (wstate[w] = "idle" /\ hand[w] = 0)]_vars

C14_Witness ==
    /\ cancelled /\ started /\ ~stopped
    /\ \E w \in Workers : wstate[w] = "exited"
    /\ \E w \in Workers : wstate[w] = "busy" /\ hand[w] # 0

\* C15: the step that schedules a delayed retry of a job is the return of its
\* handler with the job still retryable, and it sends the worker on towards
\* its receive loop (at once, or through the store update that cannot
\* block); and whatever retries are sleeping or blocked on the full queue, a
\* worker of a running process that is in its receive loop with a job queued
\* can take it
C15_RetryDoesNotHoldWorker ==
    /\ [][\A j \in JobIds :
            timers'[j] > timers[j]
                => \E w \in Workers :
                     /\ hand[w] = j /\ wstate[w] = "busy"
                     /\ wstate'[w] \in {"idle", "saving"}
                     /\ CanRetry(jobs'[j])]_vars
    /\ [](\A w \in 1..workerCount :
            ~panicked =>
                /\ wstate[w] = "saving" => ENABLED SaveFinalC(w)
                /\ (wstate[w] = "idle" /\ jobChan # <<>>)
                      => ENABLED (WorkerRecvB(w) \/ WorkerRecvC(w)))

C15_Witness ==
    \E j \in JobIds :
        /\ (timers[j] > 0 \/ (senders[j] > 0 /\ Len(jobChan) = capacity))
        /\ jobs[j].attempts > 0
        /\ wstate[1] = "busy" /\ hand[1] # j

\* C16: MarkRunning on a Pending job returns no error, puts the job in
\* Processing and adds one to Attempts; on a job in any other status it
\* returns an error and leaves status and Attempts as they were
C16_MarkRunningOnlyFromPending ==
    [][\A j \in JobIds :
         (JobMarkRunning(j) \/ JobMarkRunningNoCheck(j)) =>
            IF jobs[j].status = StatusPending
            THEN /\ ~ret'.err
                 /\ jobs'[j].status \in {StatusProcessing, StatusRunning}
                 /\ jobs'[j].attempts = jobs[j].attempts + 1
            ELSE /\ ret'.err
                 /\ jobs'[j].status = jobs[j].status
                 /\ jobs'[j].attempts = jobs[j].attempts]_vars

\* C17: MarkFailed(err) on a Processing job returns no error, stores the
\* message of err in Error and leaves the job Pending when Attempts <
\* MaxRetry and Failed otherwise, and CanRetry is Attempts < MaxRetry
C17_MarkFailedRetriesBelowMaxRetry ==
    /\ [][\A j \in JobIds, m \in {ErrHandler, ErrHandlerNotFound} :
            (jobs[j].status = StatusProcessing /\ JobMarkFailed(j, m)) =>
                /\ ~ret'.err
                /\ jobs'[j].error = m
                /\ jobs'[j].status = IF jobs[j].attempts < jobs[j].maxRetry
                                     THEN StatusPending ELSE StatusFailed
                /\ jobs'[j].attempts = jobs[j].attempts]_vars
    /\ [](\A j \in JobIds :
            Created(j) => (CanRetry(jobs[j]) <=> jobs[j].attempts < jobs[j].maxRetry))

C17_Witness ==
    /\ ret.op = "MarkFailed" /\ ret.before = StatusProcessing /\ ~ret.err
    /\ jobs[1].status = StatusPending /\ jobs[1].error = ErrHandler
    /\ jobs[1].attempts = 1 /\ jobs[1].maxRetry = 2

\* C18: MarkCompleted on a Processing job returns no error, leaves the job
\* Completed and its Error empty, whatever Error held before
C18_MarkCompletedClearsError ==
    [][\A j \in JobIds :
         (jobs[j].status = StatusProcessing /\ JobMarkCompleted(j)) =>
            /\ ~ret'.err
            /\ jobs'[j].status = StatusCompleted
            /\ jobs'[j].error = NoError
            /\ jobs'[j].attempts = jobs[j].attempts]_vars

\* a job completed on its second attempt
C18_Witness ==
    /\ ret.op = "MarkCompleted" /\ ret.before = StatusProcessing /\ ~ret.err
    /\ jobs[1].status = StatusCompleted /\ jobs[1].error = NoError
    /\ jobs[1].attempts = 2

\* a * a computed as the sum of the first a odd numbers
RECURSIVE SumOfOdds(_)
SumOfOdds(a) == IF a = 0 THEN 0 ELSE SumOfOdds(a - 1) + (2 * a - 1)

SquaresTable == <<0, 1, 4, 9, 16>>

JobWithAttempts(a) == [NewJob(0) EXCEPT !.attempts = a]

\* C19: the backoff of a job with Attempts = a is a * a seconds (0, 1, 4, 9,
\* 16 for a = 0..4) and does not decrease when a grows
C19_BackoffIsSquare ==
    /\ \A j \in JobIds :
         Created(j) =>
            /\ BackoffDuration(jobs[j]) = SumOfOdds(jobs[j].attempts)
            /\ (jobs[j].attempts + 1) \in DOMAIN SquaresTable
                 => BackoffDuration(jobs[j]) = SquaresTable[jobs[j].attempts + 1]
    /\ \A a \in 0..MaxAttempts, b \in 0..MaxAttempts :
         a <= b => BackoffDuration(JobWithAttempts(a)) <= BackoffDuration(JobWithAttempts(b))

C19_Witness ==
    /\ Created(1) /\ jobs[1].attempts = 4
    /\ BackoffDuration(jobs[1]) = 16

\* C20: Register returns no error and Get of the registered type then
\* returns the handler of that call; a Register leaves what Get returns for
\* every other type as it was and nothing but a Register of a type changes
\* what Get returns for it, so Get returns the handler of the most recent
\* Register; Get of a type with no entry returns the not-found error, and a
\* Get leaves the registry as it was
C20_LastRegistrationWins ==
    /\ [](ret.op = "Register"
            => (~ret.err /\ Get(ret.arg) = [fn |-> ret.fn, err |-> NoError]))
    /\ [][\A t \in Types, u \in Types, h \in HandlerFuncs :
            (RegistryRegister(t, h) /\ u # t) => Get(u)' = Get(u)]_vars
    /\ [][\A u \in Types :
            Get(u)' # Get(u) => \E h \in HandlerFuncs : RegistryRegister(u, h)]_vars
    /\ [](\A t \in Types :
            handlers[t] = NoHandler
                => Get(t) = [fn |-> NoHandler, err |-> ErrHandlerNotFound])
    /\ [][\A t \in Types :
            RegistryGet(t) =>
                /\ handlers' = handlers
                /\ ret'.fn = Get(t).fn
                /\ ret'.err <=> ~handlers[t].reg]_vars

\* a Register that replaced the handler the type had
C20_Witness ==
    /\ ret.op = "Register" /\ ret.before = "registered"
    /\ ret.fn = OkHandler
    /\ Get(ret.arg) = [fn |-> OkHandler, err |-> NoError]
    /\ \E t \in Types : handlers[t] = NoHandler

\* C21: with goroutines calling Register and Get at the same time, no Get's
\* map read overlaps a Register's map write and no two writes overlap, the
\* program is not stopped by the runtime, and every Get returns either a
\* registered handler without error or no handler with handler-not-found
C21_RegistryAccessUnderLock ==
    /\ Writing # {} => (Reading = {} /\ \A c, d \in Writing : c = d)
    /\ \A c \in Callers : ~callers[c].raced
    /\ ~panicked
    /\ ret.op = "Get" =>
          \/ ret.err /\ ret.fn = NoHandler
          \/ ~ret.err /\ ret.fn \in HandlerFuncs

\* C22: after Save(j) the store's entry for j's ID is j and Save reports no
\* error, whatever the entry was before; Get returns the entry of the ID, and
\* not-found exactly when there is none; Update of a job whose ID has no
\* entry reports not-found and leaves the store as it was, and otherwise
\* replaces the entry
C22_StoreSaveGetUpdate ==
    /\ [](ret.op = "Save" => ~ret.err /\ Lookup(ret.before, ret.arg) = ret.job)
    /\ [](ret.op = "Get" => /\ ret.job = Lookup(ret.before, ret.arg)
                            /\ ret.err <=> ret.job = 0
                            /\ ret.job # 0 => mem.idOf[ret.job] = ret.arg)
    /\ [][\A s \in Stores, o \in JobIds :
            StoreUpdate(s, o) =>
                IF Lookup(s, mem.idOf[o]) = 0
                THEN ret'.err /\ mem' = mem
                ELSE ~ret'.err /\ mem'.map[MapOf(s)][mem.idOf[o]] = o]_vars

\* a Save has replaced the entry another job with the same ID had
C22_Witness ==
    /\ ret.op = "Save"
    /\ ret.old # 0
    /\ ret.old # ret.job
    /\ Lookup(ret.before, ret.arg) = ret.job

\* the jobs in the buffer of the intake channel
Queued == {jobChan[i] : i \in 1..Len(jobChan)}

C24_ProcessJobOutcome ==
    /\ [][\A h \in HandlerFuncs :
            (ProcessJobCall(h) /\ jobs[1].status = StatusPending)
                => /\ calls'[1] = calls[1] + 1
                   /\ jobs'[1].status = StatusProcessing
                   /\ jobs'[1].attempts = jobs[1].attempts + 1
                   /\ impl = "ProcessJob" => 1 \in stored']_vars
    /\ [][ProcessJobReturn =>
            /\ calls' = calls
            /\ jobs'[1].attempts = jobs[1].attempts
            /\ ret'.err <=> HandlerFails(fn[1], calls[1] - 1)]_vars
    /\ [](ret.op = "ProcessJob" /\ ret.before = StatusPending =>
            /\ impl = "ProcessJob" => 1 \in stored
            /\ IF ~ret.err
               THEN /\ jobs[1].status = StatusCompleted
                    /\ jobs[1].error = NoError
               ELSE /\ ret.arg = ErrHandler
                    /\ jobs[1].error = ErrHandler
                    /\ jobs[1].status = IF jobs[1].attempts >= jobs[1].maxRetry
                                        THEN StatusFailed ELSE StatusPending)

\* ProcessJob has returned the handler's error for a job that has retries
\* left: the job is Pending again, and saved
C24_Witness ==
    /\ impl = "ProcessJob"
    /\ ret.op = "ProcessJob"
    /\ ret.before = StatusPending
    /\ ret.err
    /\ jobs[1].status = StatusPending
    /\ jobs[1].attempts = 1
    /\ 1 \in stored

\* C25: a job just created by NewJob(n) or New(t, p, n) is Pending with
\* Attempts = 0, an empty Error and MaxRetry = n; the job of New has Type = t
\* and Payload = p, the job of NewJob has neither yet
C25_NewJobIsPending ==
    /\ [][\A n \in 0..MaxRetryBound :
            JobNew(n) => /\ jobs'[1].maxRetry = n
                         /\ jobs'[1].type = ""
                         /\ jobs'[1].payload = NoPayload]_vars
    /\ [][\A t \in Types, p \in Payloads, n \in 0..MaxRetryBound :
            JobNewOf(t, p, n) => /\ jobs'[1].maxRetry = n
                                 /\ jobs'[1].type = t
                                 /\ jobs'[1].payload = p]_vars
    /\ [](ret.op \in {"NewJob", "New"} =>
            /\ jobs[ret.job].status = StatusPending
            /\ jobs[ret.job].attempts = 0
            /\ jobs[ret.job].error = NoError)

\* New has just built a job with a type, a payload and a retry budget
C25_Witness ==
    /\ ret.op = "New"
    /\ jobs[1] = [status |-> StatusPending, attempts |-> 0, maxRetry |-> MaxRetryBound,
                  error |-> NoError, type |-> "echo", payload |-> "{}",
                  id |-> NewID, createdAt |-> AtCreation]

\* the results of the Mark calls a worker makes on job j between the receive
\* and the handler call
DispatchMarks(j) ==
    IF ~HandlerOf(j).reg
    THEN {MarkFailed(jobs[j], ErrHandlerNotFound)}
    ELSE IF MarkRunning(jobs[j]).err
    THEN {MarkRunning(jobs[j])} \cup
         (IF impl = "B" THEN {MarkFailed(jobs[j], ErrInvalidStatusTransition)} ELSE {})
    ELSE {MarkRunning(jobs[j])}

\* the result of the Mark call a worker makes when the handler has returned
ReturnMarks(w) ==
    {IF Failing(w) THEN MarkFailed(jobs[hand[w]], ErrHandler)
     ELSE MarkCompleted(jobs[hand[w]])}

\* C26: in every run of the pools whose job checks its transitions, no
\* MarkRunning, MarkCompleted or MarkFailed call made by a worker (in
\* processJob or ProcessJob) returns an invalid-transition error, the dispatch
\* of a job without a registered handler included
C26_EngineNeverAttemptsInvalidTransition ==
    [][\A w \in Workers :
          /\ (WorkerRecvA(w) \/ WorkerRecvB(w))
                => \A r \in DispatchMarks(Head(jobChan)) : ~r.err
          /\ (HandlerReturnA(w) \/ HandlerReturnB(w))
                => \A r \in ReturnMarks(w) : ~r.err]_vars

\* C27: the wait of Stop returns as soon as every worker has exited, whether
\* or not a delayed-retry task is still pending; a pending task fires
\* whatever the state of the pool, its send is then due, and a send on the
\* intake queue that Stop has closed panics and enqueues nothing
C27_RetryTimersOutliveStop ==
    /\ []((cancelled /\ started /\ ~stopped /\ AllExited /\ ~panicked)
            => ENABLED WaitReturn)
    /\ [](\A j \in JobIds : (timers[j] > 0 /\ ~panicked) => ENABLED RetryFire(j))
    /\ [](\A j \in JobIds : (senders[j] > 0 /\ closed /\ ~panicked) => ENABLED Send(j))
    /\ [][\A j \in JobIds : (closed /\ Send(j)) => panicked' /\ jobChan' = jobChan]_vars

\* Stop has returned and closed the queue while the retry timer of a job
\* that is Pending again has not fired yet
C27_Witness ==
    /\ impl = "B"
    /\ stopped
    /\ closed
    /\ ~panicked
    /\ \E j \in JobIds : /\ timers[j] > 0
                         /\ jobs[j].status = StatusPending
                         /\ jobs[j].attempts > 0

\* the workers that still owe the store their last write for job j
Unsaved(j) == {w \in Workers : wstate[w] = "saving" /\ hand[w] = j}

\* C28: a retried job is on the intake queue only after the worker that
\* failed it has done its last storage write for it, and no worker dequeues
\* it while that write is outstanding
C28_SaveBeforeRequeue ==
    /\ [](\A j \in Queued : Unsaved(j) = {})
    /\ [][\A w \in Workers, j \in JobIds :
            (hand[w] # j /\ hand'[w] = j) => Unsaved(j) = {}]_vars

\* C29: once the pool's context is cancelled no worker takes a further job
\* from the intake queue
C29_NoDequeueAfterCancel ==
    [][\A w \in Workers :
          (WorkerRecvA(w) \/ WorkerRecvB(w) \/ WorkerRecvC(w)) => ~cancelled]_vars

\* what Get / GetJob returns for job j: the map entry is a pointer, so it is
\* the Job object itself
GetJob(j) == IF j \in stored THEN jobs[j] ELSE NoJob

\* the steps of worker w that contain a storage write (SaveJob, Update)
StoreWrite(w) ==
    \/ WorkerRecvA(w)
    \/ HandlerReturnA(w)
    \/ WorkerRecvC(w)
    \/ SaveFinalC(w)

\* C30: what the store returns for a saved job changes only in a step in
\* which a worker calls Save or Update: a transition a worker makes on the
\* job in its hand is not visible through Get before that
C30_StoreHoldsSnapshot ==
    [][\A j \in JobIds :
          (j \in stored /\ GetJob(j)' # GetJob(j)) => \E w \in Workers : StoreWrite(w)]_vars

\* C31: under concurrent callers every store call is atomic: while a call
\* writes the job map no other call reads or writes it, no call has raced
\* with a write, and the program is not stopped by the runtime
C31_StoreCallsAtomic ==
    /\ Writing # {} => (Reading = {} /\ \A c, d \in Writing : c = d)
    /\ \A c \in Callers : ~callers[c].raced
    /\ ~panicked

\* what store s holds: for each ID its entry
Contents(s) == [k \in Keys |-> Lookup(s, k)]

\* a call through store s that writes its map
WritesThrough(s) ==
    \/ \E o \in JobIds : StoreSave(s, o)
    \/ \E o \in JobIds : StoreUpdate(s, o)
    \/ \E k \in Keys : StoreDelete(s, k)
    \/ StoreClear(s)

\* C32: a Save, Update, Delete or clear done through one store instance
\* leaves what every other instance holds unchanged
C32_StoreOwnsItsJobs ==
    [][\A s \in Stores :
          WritesThrough(s) => \A t \in Stores \ {s} : Contents(t)' = Contents(t)]_vars

\* C33: in the engines whose Submit saves the job (goqueue.Queue and
\* queue.Queue) every job that waits to enter the intake queue, is on it or
\* is held by a worker is in the store, and a job is in the store at the
\* moment its send onto the intake queue completes
C33_QueuedJobsAreStored ==
    /\ [](impl \in {"A", "C"} =>
            \A j \in JobIds :
                (senders[j] > 0 \/ j \in Queued \/ Holders(j) # {}) => j \in stored)
    /\ [][\A j \in JobIds :
            (impl \in {"A", "C"} /\ Send(j) /\ ~panicked') => j \in stored]_vars

\* one saved job is on the intake queue while a worker holds another
C33_Witness ==
    /\ impl = "C"
    /\ \E i, j \in JobIds :
          /\ i # j
          /\ i \in Queued
          /\ Holders(j) # {}
          /\ {i, j} \subseteq stored

\* the fields of a job that are set when it is created
Fixed(job) == <<job.id, job.type, job.payload, job.maxRetry, job.createdAt>>

\* C34: no step changes the ID, Type, Payload, MaxRetry or CreatedAt of a
\* job that exists: not the job's own operations, not a worker, not a retry
C34_CreationFieldsFixed ==
    [][\A j \in JobIds : Created(j) => Fixed(jobs'[j]) = Fixed(jobs[j])]_vars

\* a job that failed once is back on the intake queue with the fields it
\* was created with
C34_Witness ==
    /\ impl = "B"
    /\ \E j \in Queued :
          /\ jobs[j].attempts = 1
          /\ jobs[j].status = StatusPending
          /\ jobs[j].error = ErrHandler
          /\ Fixed(jobs[j]) = <<NewID, "echo", SomePayload, MaxRetryBound, AtCreation>>

\* C35: a worker whose receive is served by the closed, empty intake queue
\* exits: it processes nothing and the program does not panic
C35_ClosedQueueEndsWorker ==
    [][\A w \in Workers :
          (closed /\ Len(jobChan) = 0 /\ (WorkerNilA(w) \/ WorkerClosedB(w)))
              => (wstate'[w] = "exited" /\ ~panicked' /\ jobs' = jobs)]_vars

\* the statuses a job may have when no worker is working on it
Settled == {StatusPending, StatusCompleted, StatusFailed}

\* C36: when a worker goes back to its receive loop the job it had dequeued
\* is Pending, Completed or Failed, also when the worker gave it up before
\* the handler call
C36_WorkerLeavesJobSettled ==
    [][\A w \in Workers :
          /\ (HandlerReturnA(w) \/ HandlerReturnB(w) \/ SaveFinalC(w))
                => jobs'[hand[w]].status \in Settled
          /\ ((WorkerRecvA(w) \/ WorkerRecvB(w) \/ WorkerRecvC(w)) /\ wstate'[w] = "idle")
                => jobs'[Head(jobChan)].status \in Settled]_vars

\* C37: a MarkRunning, MarkCompleted or MarkFailed call that returns the
\* invalid-transition error leaves every field of the job as it was
C37_RefusedMarkChangesNothing ==
    [][((JobMarkRunning(1) \/ JobMarkCompleted(1)
            \/ \E m \in {ErrHandler, ErrHandlerNotFound} : JobMarkFailed(1, m))
        /\ ret'.err)
          => jobs' = jobs]_vars

\* in how many places job j is: slots of the intake queue, hands of workers,
\* delayed-retry tasks that sleep or wait to send, the submitter's send
Places(j) ==
    Cardinality({i \in 1..Len(jobChan) : jobChan[i] = j})
        + Cardinality(Holders(j)) + timers[j] + senders[j]

\* C38: in every reachable state each job is in at most one place: one slot
\* of the intake queue, the hand of one worker, or one pending send or
\* delayed-retry task
C38_JobInOnePlace ==
    \A j \in JobIds : Places(j) <= 1

====
